---- MODULE Spec2Model ----
(***************************************************************************)
(* Model of the file search server (file_search_server.py) and of its      *)
(* handler registry (file_handlers/base.py).                               *)
(*                                                                         *)
(* Text is a sequence of one-character strings.  A request runs            *)
(* search_files_tool, which runs search_files once per valid directory;    *)
(* search_files creates one task per discovered file and the tasks run     *)
(* under asyncio's cooperative scheduling: a task runs without             *)
(* interruption from one await to the next, so every action below is one   *)
(* such uninterrupted segment.                                             *)
(***************************************************************************)
EXTENDS Integers, Sequences, FiniteSets, TLC

\* ------------------------------------------------------------------ bounds

\* Number of supported files in the generated directory "big".
NumFiles == 11

\* How many report_progress calls may raise during one request.
MaxSinkFaults == 1

\* Number of files in the generated directory "archive".
ListDirSize == 25

\* Largest page number a listing request asks for.
MaxPage == 5

\* Longest registry the registry specification builds.
MaxHandlers == 2

\* Longest section text drawn character by character.
MaxTextLen == 4

\* Most slides, pages or paragraphs beyond the section cap of a document.
MaxOver == 2

\* Longest list of paragraphs drawn paragraph by paragraph.
MaxParagraphs == 4

\* Most tables of a word-processor document.
MaxTables == 2

\* Most lines of a text file drawn line count by line count.
MaxLines == 45

\* ------------------------------------------------------- program constants

\* asyncio.Semaphore(10)
SemaphoreCapacity == 10

\* section_text[:200]
PreviewLen == 200

\* MAX_LIMIT
MAX_LIMIT == 50

\* MAX_CONTENT_PER_FILE
MAX_CONTENT_PER_FILE == 10

\* max(20, total_lines // max_content_sections)
MinLinesPerSection == 20

\* ------------------------------------------------------------------- text

Letters ==
    {"a", "b", "c", "d", "e", "f", "g", "h", "i", "j", "k", "l", "m", "n", "o",
     "p", "q", "r", "s", "t", "u", "v", "w", "x", "y", "z"}
UpperLetters == {"C", "D", "F", "M", "O", "P", "T", "W"}

\* str.lower() on one character
LowerChar(c) ==
    CASE c = "C" -> "c"
      [] c = "D" -> "d"
      [] c = "F" -> "f"
      [] c = "M" -> "m"
      [] c = "O" -> "o"
      [] c = "P" -> "p"
      [] c = "T" -> "t"
      [] c = "W" -> "w"
      [] OTHER -> c

\* str.lower()
Lower(s) == [i \in 1..Len(s) |-> LowerChar(s[i])]

\* a in b, for strings: a is a contiguous substring of b
IsSubstring(a, b) ==
    \E i \in 0..(Len(b) - Len(a)) :
        \A j \in 1..Len(a) : b[i + j] = a[j]

\* \w of the re module
IsWordChar(c) == c \in Letters \cup UpperLetters

\* is position p (1-based) of text a word character; outside the text it is not
WordAt(text, p) == p >= 1 /\ p <= Len(text) /\ IsWordChar(text[p])

\* \b between positions p and p+1 of text
IsBoundary(text, p) == WordAt(text, p) # WordAt(text, p + 1)

\* does \b + re.escape(keywords) + \b, IGNORECASE, match text at position i
MatchesAt(kw, text, i) ==
    /\ i + Len(kw) - 1 <= Len(text)
    /\ \A j \in 1..Len(kw) : LowerChar(text[i + j - 1]) = LowerChar(kw[j])
    /\ IsBoundary(text, i - 1)
    /\ IsBoundary(text, i + Len(kw) - 1)

\* the first position from i on where the pattern matches, 0 when there is
\* none
NextMatch(kw, text, i) ==
    LET ps == {j \in i..(Len(text) + 1) : MatchesAt(kw, text, j)}
    IN  IF ps = {} THEN 0 ELSE CHOOSE j \in ps : \A k \in ps : j <= k

RECURSIVE FindAllFrom(_, _, _)
\* len(re.findall(keyword_pattern, text)) scanning from position i:
\* matches are found left to right and do not overlap; after an empty match
\* the scan moves on by one character
FindAllFrom(kw, text, i) ==
    LET m == NextMatch(kw, text, i)
    IN  IF m = 0 THEN 0
        ELSE 1 + FindAllFrom(kw, text, m + (IF Len(kw) = 0 THEN 1 ELSE Len(kw)))

FindAll(kw, text) == FindAllFrom(kw, text, 1)

\* the preview without the truncation
Preview_whole(text) == text

\* section_text[:200] + "..." if len(section_text) > 200 else section_text
Preview(text) ==
    IF Len(text) > PreviewLen
    THEN SubSeq(text, 1, PreviewLen) \o <<".", ".", ".">>
    ELSE text

\* Optional[str]: None
None == <<"<None>">>

\* ------------------------------------------------------- handler registry

\* PPTXHandler: get_supported_extensions, get_type_description
PPTXHandler ==
    [exts |-> {<<".", "p", "p", "t", "x">>},
     label |-> <<"P", "o", "w", "e", "r", "P", "o", "i", "n", "t">>]

\* PDFHandler
PDFHandler ==
    [exts |-> {<<".", "p", "d", "f">>},
     label |-> <<"P", "D", "F">>]

\* DOCXHandler
DOCXHandler ==
    [exts |-> {<<".", "d", "o", "c", "x">>},
     label |-> <<"W", "o", "r", "d">>]

\* TextHandler
TextHandler ==
    [exts |-> {<<".", "t", "x", "t">>, <<".", "m", "d">>, <<".", "p", "y">>,
               <<".", "j", "s">>, <<".", "h", "t", "m", "l">>, <<".", "c", "s", "s">>,
               <<".", "j", "s", "o", "n">>, <<".", "x", "m", "l">>, <<".", "c", "s", "v">>,
               <<".", "i", "n", "i">>, <<".", "c", "o", "n", "f">>, <<".", "l", "o", "g">>},
     label |-> <<"T", "e", "x", "t">>]

\* handler_registry after the four register_handler calls of module start-up
StartupRegistry == <<PPTXHandler, PDFHandler, DOCXHandler, TextHandler>>

\* FileHandlerRegistry.register_handler: self.handlers.append(handler)
register_handler(reg, handler) == Append(reg, handler)

\* FileHandler.can_handle: file_path.suffix.lower() in get_supported_extensions()
can_handle(handler, suffix) == Lower(suffix) \in handler.exts

\* get_handler_for_file returning the handler registered last among those
\* that can handle the path
get_handler_for_file_last(reg, suffix) ==
    IF \E i \in 1..Len(reg) : can_handle(reg[i], suffix)
    THEN CHOOSE i \in 1..Len(reg) :
            /\ can_handle(reg[i], suffix)
            /\ \A j \in (i + 1)..Len(reg) : ~can_handle(reg[j], suffix)
    ELSE 0

\* FileHandlerRegistry.get_handler_for_file: the index of the first handler
\* that can handle the path, 0 for None
get_handler_for_file(reg, suffix) ==
    IF \E i \in 1..Len(reg) : can_handle(reg[i], suffix)
    THEN CHOOSE i \in 1..Len(reg) :
            /\ can_handle(reg[i], suffix)
            /\ \A j \in 1..(i - 1) : ~can_handle(reg[j], suffix)
    ELSE 0

\* can_handle_file without the test of the label: the filter is ignored
can_handle_file_unfiltered(reg, suffix, file_type) ==
    \E i \in 1..Len(reg) : can_handle(reg[i], suffix)

\* the test of one handler inside the loop of can_handle_file
handler_accepts(handler, suffix, file_type) ==
    /\ can_handle(handler, suffix)
    /\ \/ file_type = None
       \/ IsSubstring(Lower(file_type), Lower(handler.label))

\* FileHandlerRegistry.can_handle_file: the loop returns True at the first
\* handler that passes both tests and goes on to the next handler otherwise
can_handle_file(reg, suffix, file_type) ==
    \E i \in 1..Len(reg) : handler_accepts(reg[i], suffix, file_type)

\* handler.get_type_description() if handler else "Unknown"
type_description(reg, suffix) ==
    IF get_handler_for_file(reg, suffix) = 0
    THEN <<"U", "n", "k", "n", "o", "w", "n">>
    ELSE reg[get_handler_for_file(reg, suffix)].label

\* ------------------------------------------------------------ file system

\* Section texts of the documents on disk.
TxtCatSat == <<"a", " ", "c", "a", "t">>
TxtCatCat == <<"C", "a", "t", " ", "c", "a", "t">>
TxtCats == <<"c", "a", "t", "s">>
TxtDog == <<"d", "o", "g", ",", "c", "a", "t", ".">>
TxtEmpty == <<>>

\* What the handler's extract_text returns for a document (the extraction
\* routines read the document with a format library), or that it raises
\* with message msg.  isStr is whether a section's "text" is a str.
Sec(n, text) == [section_number |-> n, text |-> text, isStr |-> TRUE]

DocOne == [raises |-> FALSE, msg |-> <<>>, sections |-> <<Sec(1, TxtCatSat)>>]

DocThree ==
    [raises |-> FALSE, msg |-> <<>>,
     sections |-> <<Sec(1, TxtCatCat), Sec(2, TxtEmpty), Sec(3, TxtCatSat)>>]

DocNone == [raises |-> FALSE, msg |-> <<>>, sections |-> <<Sec(1, TxtCats)>>]

DocTwo == [raises |-> FALSE, msg |-> <<>>, sections |-> <<Sec(2, TxtCats), Sec(4, TxtCatCat)>>]

DocDog == [raises |-> FALSE, msg |-> <<>>, sections |-> <<Sec(1, TxtDog)>>]

DocBlank == [raises |-> FALSE, msg |-> <<>>, sections |-> <<>>]

\* the format library raises with a message that names the file, "cat.pdf"
DocRaises ==
    [raises |-> TRUE, msg |-> <<"c", "a", "t", ".", "p", "d", "f">>, sections |-> <<>>]

\* a handler that returns a section whose "text" is not a str
DocBadText ==
    [raises |-> FALSE, msg |-> <<>>,
     sections |-> <<Sec(1, TxtCatSat), [section_number |-> 2, text |-> <<"x">>, isStr |-> FALSE]>>]

SufTxt == <<".", "t", "x", "t">>
SufPdf == <<".", "p", "d", "f">>
SufPdfUpper == <<".", "P", "D", "F">>
SufDocx == <<".", "d", "o", "c", "x">>
SufPptx == <<".", "p", "p", "t", "x">>
SufPng == <<".", "p", "n", "g">>

\* A directory entry: a regular file (isFile) with its suffix and document,
\* or a subdirectory sub.  isFileRaises: Path.is_file() raises an OSError on
\* the entry (its stat fails with an error pathlib does not ignore);
\* statFails: stat() raises when the listing fetches the metadata.
File(dir, id, suffix, doc) ==
    [dir |-> dir, id |-> id, suffix |-> suffix, isFile |-> TRUE, sub |-> "", doc |-> doc,
     statFails |-> FALSE, isFileRaises |-> FALSE]

SubDir(dir, id, sub) ==
    [dir |-> dir, id |-> id, suffix |-> <<>>, isFile |-> FALSE, sub |-> sub, doc |-> DocBlank,
     statFails |-> FALSE, isFileRaises |-> FALSE]

\* the i-th file of the directory "archive"; stat() fails on every seventh
ArchiveFile(i) ==
    [File("archive", i, IF i % 3 = 0 THEN SufPdf ELSE SufTxt, DocBlank)
        EXCEPT !.statFails = (i % 7 = 0)]

BigSuffixes == <<SufTxt, SufPdf, SufPdfUpper, SufDocx, SufPptx>>
BigDocs == <<DocOne, DocThree, DocNone, DocTwo, DocDog, DocRaises, DocBlank>>

\* the i-th file of the directory "big"
BigFile(i) ==
    File("big", i, BigSuffixes[(i % Len(BigSuffixes)) + 1], BigDocs[(i % Len(BigDocs)) + 1])

\* The directories on disk: kind is "dir", "file" (a path that is no
\* directory) or "missing"; entries in the order the operating system lists
\* them; listFails when listing the directory raises (permission denied).
FileSystem(d) ==
    CASE d = "big" ->
            [kind |-> "dir", listFails |-> FALSE,
             entries |-> [i \in 1..NumFiles |-> BigFile(i)] \o <<File("big", 0, SufPng, DocOne)>>]
      [] d = "archive" ->
            [kind |-> "dir", listFails |-> FALSE, entries |-> [i \in 1..ListDirSize |-> ArchiveFile(i)]]
      [] d = "small" ->
            [kind |-> "dir", listFails |-> FALSE,
             entries |-> <<File("small", 1, SufTxt, DocOne),
                           SubDir("small", 2, "small/sub"),
                           File("small", 3, SufPdf, DocThree),
                           File("small", 4, SufPng, DocThree)>>]
      [] d = "small/sub" ->
            [kind |-> "dir", listFails |-> FALSE,
             entries |-> <<File("small/sub", 1, SufDocx, DocBadText),
                           File("small/sub", 2, SufPdfUpper, DocRaises),
                           File("small/sub", 3, SufPptx, DocTwo)>>]
      [] d = "vault" ->
            [kind |-> "dir", listFails |-> FALSE,
             entries |-> <<File("vault", 1, SufTxt, DocOne),
                           SubDir("vault", 2, "vault/locked"),
                           [File("vault", 3, SufPdf, DocRaises) EXCEPT !.isFileRaises = TRUE],
                           File("vault", 4, SufTxt, DocThree),
                           SubDir("vault", 5, "vault/open")>>]
      [] d = "vault/locked" ->
            [kind |-> "dir", listFails |-> TRUE,
             entries |-> <<File("vault/locked", 1, SufTxt, DocOne)>>]
      [] d = "vault/open" ->
            [kind |-> "dir", listFails |-> FALSE,
             entries |-> <<File("vault/open", 1, SufDocx, DocTwo)>>]
      [] d = "locked" ->
            [kind |-> "dir", listFails |-> TRUE,
             entries |-> <<File("locked", 1, SufTxt, DocOne)>>]
      [] d = "empty" -> [kind |-> "dir", listFails |-> FALSE, entries |-> <<>>]
      [] d = "notes.txt" -> [kind |-> "file", listFails |-> FALSE, entries |-> <<>>]
      [] OTHER -> [kind |-> "missing", listFails |-> FALSE, entries |-> <<>>]

\* SEARCH_DIRS, from the environment: FILE_SEARCH_DIRS split at ";", a
\* directory named twice is kept twice
SEARCH_DIRS == <<"small", "gone", "big", "small">>

RECURSIVE walk(_)
\* os.walk(directory): the files of a directory, then its subdirectories
\* top-down, in listing order.  os.walk is called without onerror: a
\* directory that cannot be listed yields nothing and the walk goes on; an
\* entry whose is_dir() fails is listed among the files.
walk(d) ==
    LET es == FileSystem(d).entries
        RECURSIVE below(_)
        below(i) ==
            IF i > Len(es) THEN <<>>
            ELSE (IF es[i].isFile THEN <<>> ELSE walk(es[i].sub)) \o below(i + 1)
    IN  IF FileSystem(d).listFails THEN <<>>
        ELSE SelectSeq(es, LAMBDA e : e.isFile) \o below(1)

\* the entries the loop over directory.iterdir() visits before file.is_file()
\* raises: the exception leaves the loop, the except block logs it and the
\* generator ends
iterdir_visited(es) ==
    IF \E i \in 1..Len(es) : es[i].isFileRaises
    THEN SubSeq(es, 1, (CHOOSE i \in 1..Len(es) :
                            /\ es[i].isFileRaises
                            /\ \A j \in 1..(i - 1) : ~es[j].isFileRaises) - 1)
    ELSE es

\* find_files: the files under directory the registry accepts, recursively
\* or among the directory's own entries; nothing when directory.iterdir()
\* raises
find_files(reg, directory, file_type, recursive) ==
    IF recursive
    THEN SelectSeq(walk(directory), LAMBDA f : can_handle_file(reg, f.suffix, file_type))
    ELSE IF FileSystem(directory).listFails THEN <<>>
         ELSE SelectSeq(iterdir_visited(FileSystem(directory).entries),
                        LAMBDA f : f.isFile /\ can_handle_file(reg, f.suffix, file_type))

\* ------------------------------------------------- extraction and matching

\* "파일 처리 중 오류 발생: ", the text extract_text_from_file puts before
\* str(e); written here as one word and the separator
ErrorPrefix == <<"e", "r", "r", "o", "r", ":", " ">>

\* "지원되지 않는 파일 형식입니다."
UnsupportedText == <<"u", "n", "s", "u", "p", "p", "o", "r", "t", "e", "d">>

\* extract_text_from_file returning no section at all when the handler raises
extract_text_from_file_empty(reg, file) ==
    IF get_handler_for_file(reg, file.suffix) = 0
    THEN <<Sec(0, UnsupportedText)>>
    ELSE IF file.doc.raises THEN <<>> ELSE file.doc.sections

\* extract_text_from_file: the sections of the resolved handler, or one
\* section numbered 0 carrying the diagnostic when no handler resolves or the
\* handler raises
extract_text_from_file(reg, file) ==
    IF get_handler_for_file(reg, file.suffix) = 0
    THEN <<Sec(0, UnsupportedText)>>
    ELSE IF file.doc.raises
         THEN <<Sec(0, ErrorPrefix \o file.doc.msg)>>
         ELSE file.doc.sections

\* does the loop over content_sections raise: re.findall raises TypeError on
\* a "text" that is not a str (an empty text is skipped before it)
matching_raises(sections) ==
    \E i \in 1..Len(sections) : sections[i].text # <<>> /\ ~sections[i].isStr

\* the ContentMatch appended for a section with matches
content_match(section, keywords) ==
    [section_number |-> section.section_number,
     match_count |-> FindAll(keywords, section.text),
     preview |-> Preview(section.text)]

RECURSIVE content_matches_of(_, _)
\* the loop over content_sections: one ContentMatch per section whose text
\* is not empty and has at least one match, in section order
content_matches_of(sections, keywords) ==
    IF sections = <<>> THEN <<>>
    ELSE (IF Head(sections).text # <<>> /\ FindAll(keywords, Head(sections).text) > 0
          THEN <<content_match(Head(sections), keywords)>>
          ELSE <<>>) \o content_matches_of(Tail(sections), keywords)

\* the number of matching sections instead of the number of matches
SumMatchCount_sections(content_matches) == Len(content_matches)

RECURSIVE SumMatchCount(_)
\* sum(match["match_count"] for match in content_matches)
SumMatchCount(content_matches) ==
    IF content_matches = <<>> THEN 0
    ELSE Head(content_matches).match_count + SumMatchCount(Tail(content_matches))

\* SearchResult(filename, file_type, path, content_matches, match_count)
SearchResult(reg, file, content_matches) ==
    [filename |-> file.id,
     file_type |-> type_description(reg, file.suffix),
     path |-> <<file.dir, file.id>>,
     content_matches |-> content_matches,
     match_count |-> SumMatchCount(content_matches)]

\* does process_file append a result for these content_matches
has_result(content_matches) == content_matches # <<>>

RECURSIVE InsertDesc(_, _)
\* insert r after every element whose match_count is at least r's
InsertDesc(sorted, r) ==
    IF sorted = <<>> THEN <<r>>
    ELSE IF Head(sorted).match_count >= r.match_count
         THEN <<Head(sorted)>> \o InsertDesc(Tail(sorted), r)
         ELSE <<r>> \o sorted

RECURSIVE SortFrom(_, _)
SortFrom(rs, acc) ==
    IF rs = <<>> THEN acc ELSE SortFrom(Tail(rs), InsertDesc(acc, Head(rs)))

\* the list left as it was appended to
sort_skipped(rs) == rs

\* list.sort(key=lambda x: x.match_count, reverse=True): stable, descending
sort_by_match_count(rs) == SortFrom(rs, <<>>)

\* ------------------------------------------------------------------ state

VARIABLES
    handlers,         \* handler_registry.handlers
    toolPc,           \* search_files_tool: "idle", "scan", "done"
    query,            \* the SearchQuery of the request
    valid_dirs,       \* search_files_tool: valid_dirs
    dirIdx,           \* search_files_tool: the loop's position in valid_dirs
    all_results,      \* search_files_tool: all_results
    response,         \* the payload search_files_tool returns
    scanPc,           \* search_files: "none", "call", "gather", "returned"
    files,            \* search_files: files
    results,          \* search_files: results
    processed_files,  \* search_files: processed_files
    semaphore,        \* search_files: the value of semaphore
    taskPc,           \* per task of search_files: "pending", "sink", "done"
    reported,         \* per task: the processed count of the report_progress call it is
                      \* suspended in, 0 when it is in none
    notified,         \* the tasks that have called report_progress
    sinkFaults,       \* how many report_progress calls raised
    scanResult,       \* what the last search_files call returned
    sink_log,         \* the sink of the request: whether it keeps the progress lines
                      \* ctx.info sends it, and the lines it has kept
    listResponse,     \* the payload get_directory_listing returns
    regAnswer,        \* what the registry answered to the last question put to it
    typesResponse,    \* the payload get_supported_file_types returns
    matchAnswer,      \* the content matches the matching loop built for one section
    extractAnswer     \* the sections a handler's extract_text returned for a document

toolVars == <<toolPc, query, valid_dirs, dirIdx, all_results, response>>
scanVars == <<scanPc, files, results, processed_files, semaphore, taskPc, reported, notified,
              sinkFaults, scanResult, sink_log>>
pureVars == <<matchAnswer, extractAnswer>>
vars == <<handlers, toolVars, scanVars, listResponse, regAnswer, typesResponse, pureVars>>

\* search_files: total_files
total_files == Len(files)

\* SearchQuery.validate_file_type: the string "null" is None
validate_file_type(v) == IF v = <<"n", "u", "l", "l">> THEN None ELSE v

\* SearchQuery.validate_directory: the string "null" is None; None and ""
\* are both "no directory" to search_files_tool
validate_directory(v) == IF v = "null" THEN "" ELSE v

\* The requests a client sends.
Queries ==
    {[keywords |-> <<"c", "a", "t">>, directory |-> "", file_type |-> None],
     [keywords |-> <<"d", "o", "g">>, directory |-> "big", file_type |-> <<"t">>],
     [keywords |-> <<"c", "a", "t">>, directory |-> "big", file_type |-> <<"p", "d", "f">>],
     [keywords |-> <<"c", "a", "t">>, directory |-> "small", file_type |-> <<"O">>],
     [keywords |-> <<"d", "o", "g">>, directory |-> "null", file_type |-> <<"T", "e">>],
     [keywords |-> <<"c", "a", "t">>, directory |-> "empty", file_type |-> <<"n", "u", "l", "l">>],
     [keywords |-> <<"c", "a", "t">>, directory |-> "gone", file_type |-> None],
     [keywords |-> <<"c", "a", "t">>, directory |-> "vault", file_type |-> None],
     [keywords |-> <<"c", "a", "t">>, directory |-> "locked", file_type |-> None],
     [keywords |-> <<"c", "a", "t">>, directory |-> "notes.txt", file_type |-> None]}

NoResponse == [error |-> "", query |-> <<>>, directories |-> <<>>, result_count |-> 0, results |-> <<>>]

\* No listing has been asked for.
NoListing ==
    [state |-> "none", error |-> "", directory |-> "", total_files |-> 0, page |-> 0,
     limit |-> 0, total_pages |-> 0, showing_files |-> 0, files |-> <<>>,
     file_type_filter |-> None]

\* No question has been put to the registry.
NoAnswer ==
    [asked |-> FALSE, suffix |-> <<>>, file_type |-> None, accepts |-> FALSE, handler |-> 0]

\* The matching loop has not been run on its own.
NoMatch == [asked |-> FALSE, keywords |-> <<>>, text |-> <<>>, content_matches |-> <<>>]

\* No handler has been run on its own.
NoExtract ==
    [asked |-> FALSE, handler |-> "",
     doc |-> [units |-> 0, paragraphs |-> <<>>, tables |-> <<>>, raises |-> FALSE],
     cap |-> 0, sections |-> <<>>]

\* A sink that keeps none of the lines sent to it.
NoLog == [recording |-> FALSE, lines |-> <<>>]

\* get_supported_file_types has not been asked.
NoTypes == [asked |-> FALSE, supported_file_types |-> <<>>]

\* The state of a server that has not been asked anything.
Idle ==
    /\ toolPc = "idle"
    /\ query = [keywords |-> <<>>, directory |-> "", file_type |-> None]
    /\ valid_dirs = <<>>
    /\ dirIdx = 0
    /\ all_results = <<>>
    /\ response = NoResponse
    /\ scanPc = "none"
    /\ files = <<>>
    /\ results = <<>>
    /\ processed_files = 0
    /\ semaphore = 0
    /\ taskPc = <<>>
    /\ reported = <<>>
    /\ notified = {}
    /\ sinkFaults = 0
    /\ scanResult = <<>>
    /\ listResponse = NoListing
    /\ regAnswer = NoAnswer
    /\ typesResponse = NoTypes
    /\ matchAnswer = NoMatch
    /\ extractAnswer = NoExtract

Init ==
    /\ handlers = StartupRegistry
    /\ sink_log = NoLog
    /\ Idle

\* ------------------------------------------------------ search_files_tool

\* search_dirs of search_files_tool
search_dirs(q) == IF q.directory # "" THEN <<q.directory>> ELSE SEARCH_DIRS

\* is_valid_dir with the existence test only
is_valid_dir_exists(d) == FileSystem(d).kind # "missing"

\* dir_path.exists() and dir_path.is_dir()
is_valid_dir(d) == FileSystem(d).kind = "dir"

\* search_files_tool, no valid directory: the error payload
search_files_tool_invalid(q) ==
    /\ toolPc = "idle"
    /\ LET vq == [keywords |-> q.keywords,
                  directory |-> validate_directory(q.directory),
                  file_type |-> validate_file_type(q.file_type)]
       IN  /\ SelectSeq(search_dirs(vq), is_valid_dir) = <<>>
           /\ query' = vq
           /\ valid_dirs' = <<>>
           /\ response' = [NoResponse EXCEPT !.error = "no valid search directory"]
    /\ toolPc' = "done"
    /\ UNCHANGED <<handlers, listResponse, regAnswer, typesResponse, pureVars, dirIdx, all_results, scanVars>>

\* search_files_tool up to the first call of search_files
search_files_tool_valid(q) ==
    /\ toolPc = "idle"
    /\ LET vq == [keywords |-> q.keywords,
                  directory |-> validate_directory(q.directory),
                  file_type |-> validate_file_type(q.file_type)]
       IN  /\ SelectSeq(search_dirs(vq), is_valid_dir) # <<>>
           /\ query' = vq
           /\ valid_dirs' = SelectSeq(search_dirs(vq), is_valid_dir)
    /\ toolPc' = "scan"
    /\ dirIdx' = 1
    /\ all_results' = <<>>
    /\ scanPc' = "call"
    /\ UNCHANGED <<handlers, listResponse, regAnswer, typesResponse, pureVars, response, files, results, processed_files, semaphore,
                   taskPc, reported, notified, sinkFaults, scanResult, sink_log>>

\* the loop of search_files_tool after a search_files call returned, when
\* another directory follows
search_files_tool_next ==
    /\ toolPc = "scan"
    /\ scanPc = "returned"
    /\ dirIdx < Len(valid_dirs)
    /\ all_results' = all_results \o scanResult
    /\ dirIdx' = dirIdx + 1
    /\ scanPc' = "call"
    /\ UNCHANGED <<handlers, listResponse, regAnswer, typesResponse, pureVars, toolPc, query, valid_dirs, response, files, results,
                   processed_files, semaphore, taskPc, reported, notified, sinkFaults, scanResult,
                   sink_log>>

\* search_files_tool after the last search_files call returned: the combined
\* list is sorted and the payload built
search_files_tool_finish ==
    /\ toolPc = "scan"
    /\ scanPc = "returned"
    /\ dirIdx = Len(valid_dirs)
    /\ all_results' = sort_by_match_count(all_results \o scanResult)
    /\ response' = [error |-> "",
                    query |-> query.keywords,
                    directories |-> valid_dirs,
                    result_count |-> Len(all_results'),
                    results |-> all_results']
    /\ toolPc' = "done"
    /\ scanPc' = "none"
    /\ UNCHANGED <<handlers, listResponse, regAnswer, typesResponse, pureVars, query, valid_dirs, dirIdx, files, results,
                   processed_files, semaphore, taskPc, reported, notified, sinkFaults, scanResult,
                   sink_log>>

\* ----------------------------------------------------------- search_files
\* search_files is run by search_files_tool, which always passes its ctx:
\* the branches taken "if ctx" are the ones modelled.

\* files = list(find_files(directory, file_type)) for the directory at hand
discovered == find_files(handlers, valid_dirs[dirIdx], query.file_type, TRUE)

\* search_files_empty raising instead of returning: search_files_tool
\* answers with its error payload
search_files_empty_raises ==
    /\ toolPc = "scan"
    /\ scanPc = "call"
    /\ Len(discovered) = 0
    /\ toolPc' = "done"
    /\ scanPc' = "none"
    /\ response' = [NoResponse EXCEPT !.error = "search failed"]
    /\ UNCHANGED <<handlers, listResponse, regAnswer, typesResponse, pureVars, query, valid_dirs, dirIdx, all_results,
                   files, results, processed_files, semaphore, taskPc, reported, notified,
                   sinkFaults, scanResult, sink_log>>

\* search_files when discovery finds no file: return []
search_files_empty ==
    /\ toolPc = "scan"
    /\ scanPc = "call"
    /\ Len(discovered) = 0
    /\ files' = <<>>
    /\ results' = <<>>
    /\ taskPc' = <<>>
    /\ reported' = <<>>
    /\ notified' = {}
    /\ scanResult' = <<>>
    /\ scanPc' = "returned"
    /\ UNCHANGED <<handlers, listResponse, regAnswer, typesResponse, pureVars, toolVars, processed_files, semaphore, sinkFaults,
                   sink_log>>

\* search_files up to asyncio.gather: one task per file is created
search_files_start ==
    /\ toolPc = "scan"
    /\ scanPc = "call"
    /\ Len(discovered) > 0
    /\ files' = discovered
    /\ results' = <<>>
    /\ processed_files' = 0
    /\ semaphore' = SemaphoreCapacity
    /\ taskPc' = [t \in 1..Len(discovered) |-> "pending"]
    /\ reported' = [t \in 1..Len(discovered) |-> 0]
    /\ notified' = {}
    /\ scanPc' = "gather"
    /\ UNCHANGED <<handlers, listResponse, regAnswer, typesResponse, pureVars, toolVars, sinkFaults, scanResult,
                   sink_log>>

\* can_acquire without the gate: every task enters at once
can_acquire_ungated == TRUE

\* async with semaphore: a task enters when the semaphore has a free slot
can_acquire == semaphore > 0

\* is_next_task when a task that has completed may be started again
is_next_task_again(t) ==
    /\ t \in DOMAIN taskPc
    /\ taskPc[t] # "sink"
    /\ \A u \in 1..(t - 1) : taskPc[u] # "pending"

\* Tasks first run in the order create_task made them and the semaphore
\* wakes its waiters first in, first out: the next task to enter the gate is
\* the first one still pending.
is_next_task(t) ==
    /\ t \in DOMAIN taskPc
    /\ taskPc[t] = "pending"
    /\ \A u \in 1..(t - 1) : taskPc[u] # "pending"

\* the content_matches process_file builds for the file of task t
task_matches(t) ==
    content_matches_of(extract_text_from_file(handlers, files[t]), query.keywords)

\* does the try block of process_file raise before the progress update
task_raises(t) == matching_raises(extract_text_from_file(handlers, files[t]))

\* process_file from the semaphore to await ctx.report_progress: extraction,
\* matching, the result appended, the count incremented, the sink called
process_file_run(t) ==
    /\ scanPc = "gather"
    /\ is_next_task(t)
    /\ can_acquire
    /\ ~task_raises(t)
    /\ semaphore' = semaphore - 1
    /\ results' = IF has_result(task_matches(t))
                  THEN Append(results, SearchResult(handlers, files[t], task_matches(t)))
                  ELSE results
    /\ processed_files' = processed_files + 1
    /\ reported' = [reported EXCEPT ![t] = processed_files + 1]
    /\ notified' = notified \cup {t}
    /\ taskPc' = [taskPc EXCEPT ![t] = "sink"]
    /\ UNCHANGED <<handlers, listResponse, regAnswer, typesResponse, pureVars, toolVars, scanPc, files, sinkFaults, scanResult,
                   sink_log>>

\* process_file_fault without the except block: the exception leaves the
\* task, asyncio.gather raises it in search_files and search_files_tool
\* answers with its error payload
process_file_fault_escapes(t) ==
    /\ scanPc = "gather"
    /\ is_next_task(t)
    /\ can_acquire
    /\ task_raises(t)
    /\ taskPc' = [taskPc EXCEPT ![t] = "done"]
    /\ toolPc' = "done"
    /\ scanPc' = "none"
    /\ response' = [NoResponse EXCEPT !.error = "search failed"]
    /\ UNCHANGED <<handlers, listResponse, regAnswer, typesResponse, pureVars, query, valid_dirs, dirIdx, all_results,
                   files, results, processed_files, semaphore, reported, notified, sinkFaults,
                   scanResult, sink_log>>

\* process_file_fault when the except path does not give the slot back
process_file_fault_keeps_slot(t) ==
    /\ scanPc = "gather"
    /\ is_next_task(t)
    /\ can_acquire
    /\ task_raises(t)
    /\ processed_files' = processed_files + 1
    /\ semaphore' = semaphore - 1
    /\ taskPc' = [taskPc EXCEPT ![t] = "done"]
    /\ UNCHANGED <<handlers, listResponse, regAnswer, typesResponse, pureVars, toolVars, scanPc, files, results, reported, notified,
                   sinkFaults, scanResult, sink_log>>

\* process_file when extraction or matching raises: the except block
\* increments the count; the semaphore is taken and given back
process_file_fault(t) ==
    /\ scanPc = "gather"
    /\ is_next_task(t)
    /\ can_acquire
    /\ task_raises(t)
    /\ processed_files' = processed_files + 1
    /\ taskPc' = [taskPc EXCEPT ![t] = "done"]
    /\ UNCHANGED <<handlers, listResponse, regAnswer, typesResponse, pureVars, toolVars, scanPc, files, results, semaphore, reported, notified,
                   sinkFaults, scanResult, sink_log>>

\* if processed_files % 5 == 0 or processed_files == total_files
emits_progress_line(count, total) == count % 5 = 0 \/ count = total

\* the progress line of task t, ctx.info(f"{processed_files}/{total_files}"),
\* built when the task resumes from its report_progress call; "reported" is
\* the count the task passed to that call
progress_line(t) ==
    [task |-> t, reported |-> reported[t],
     processed_files |-> processed_files, total_files |-> total_files]

\* await ctx.report_progress returns: the rest of the try block sends the
\* progress line when one is due, and the semaphore is released. (The summary
\* of the top results sent every 10th result changes no state and the sink
\* does not keep it.)
report_progress_returns(t) ==
    /\ scanPc = "gather"
    /\ t \in DOMAIN taskPc
    /\ taskPc[t] = "sink"
    /\ semaphore' = semaphore + 1
    /\ reported' = [reported EXCEPT ![t] = 0]
    /\ taskPc' = [taskPc EXCEPT ![t] = "done"]
    /\ sink_log' = IF sink_log.recording /\ emits_progress_line(processed_files, total_files)
                   THEN [sink_log EXCEPT !.lines = Append(@, progress_line(t))]
                   ELSE sink_log
    /\ UNCHANGED <<handlers, listResponse, regAnswer, typesResponse, pureVars, toolVars, scanPc, files, results, processed_files,
                   notified, sinkFaults, scanResult>>

\* report_progress_raises when the result is only kept once the sink call
\* has returned: the result of the file is lost with a raising call
report_progress_raises_drops(t) ==
    /\ scanPc = "gather"
    /\ t \in DOMAIN taskPc
    /\ taskPc[t] = "sink"
    /\ sinkFaults < MaxSinkFaults
    /\ sinkFaults' = sinkFaults + 1
    /\ processed_files' = processed_files + 1
    /\ semaphore' = semaphore + 1
    /\ reported' = [reported EXCEPT ![t] = 0]
    /\ taskPc' = [taskPc EXCEPT ![t] = "done"]
    /\ results' = SelectSeq(results, LAMBDA r : r.path # <<files[t].dir, files[t].id>>)
    /\ UNCHANGED <<handlers, listResponse, regAnswer, typesResponse, pureVars, toolVars, scanPc, files, notified, scanResult,
                   sink_log>>

\* report_progress_raises without the except block: the exception leaves
\* the task and the request ends with the error payload
report_progress_raises_escapes(t) ==
    /\ scanPc = "gather"
    /\ t \in DOMAIN taskPc
    /\ taskPc[t] = "sink"
    /\ sinkFaults < MaxSinkFaults
    /\ sinkFaults' = sinkFaults + 1
    /\ semaphore' = semaphore + 1
    /\ reported' = [reported EXCEPT ![t] = 0]
    /\ taskPc' = [taskPc EXCEPT ![t] = "done"]
    /\ toolPc' = "done"
    /\ scanPc' = "none"
    /\ response' = [NoResponse EXCEPT !.error = "search failed"]
    /\ UNCHANGED <<handlers, listResponse, regAnswer, typesResponse, pureVars, query, valid_dirs, dirIdx, all_results,
                   files, results, processed_files, notified, scanResult, sink_log>>

\* await ctx.report_progress raises: the except block increments the count,
\* and the semaphore is released
report_progress_raises(t) ==
    /\ scanPc = "gather"
    /\ t \in DOMAIN taskPc
    /\ taskPc[t] = "sink"
    /\ sinkFaults < MaxSinkFaults
    /\ sinkFaults' = sinkFaults + 1
    /\ processed_files' = processed_files + 1
    /\ semaphore' = semaphore + 1
    /\ reported' = [reported EXCEPT ![t] = 0]
    /\ taskPc' = [taskPc EXCEPT ![t] = "done"]
    /\ UNCHANGED <<handlers, listResponse, regAnswer, typesResponse, pureVars, toolVars, scanPc, files, results, notified, scanResult,
                   sink_log>>

\* asyncio.gather returned: results.sort, return results
search_files_return ==
    /\ scanPc = "gather"
    /\ \A t \in DOMAIN taskPc : taskPc[t] = "done"
    /\ results' = sort_by_match_count(results)
    /\ scanResult' = results'
    /\ scanPc' = "returned"
    /\ UNCHANGED <<handlers, listResponse, regAnswer, typesResponse, pureVars, toolVars, files, processed_files, semaphore, taskPc,
                   reported, notified, sinkFaults, sink_log>>

Next ==
    \/ \E q \in Queries : search_files_tool_invalid(q)
    \/ \E q \in Queries : search_files_tool_valid(q)
    \/ search_files_tool_next
    \/ search_files_tool_finish
    \/ search_files_empty
    \/ search_files_start
    \/ \E t \in DOMAIN taskPc : process_file_run(t)
    \/ \E t \in DOMAIN taskPc : process_file_fault(t)
    \/ \E t \in DOMAIN taskPc : report_progress_returns(t)
    \/ \E t \in DOMAIN taskPc : report_progress_raises(t)
    \/ search_files_return

Spec == Init /\ [][Next]_vars

\* What the event loop sees of a scan, the position of each task: a task
\* that is next at a free slot runs to its sink call or to the end of its
\* except block, a task whose sink call has ended runs to its end, and
\* gather returns when every task is done.
ScanStep ==
    /\ scanPc = "gather"
    /\ \/ \E t \in DOMAIN taskPc :
            /\ is_next_task(t)
            /\ can_acquire
            /\ taskPc' \in {[taskPc EXCEPT ![t] = "sink"], [taskPc EXCEPT ![t] = "done"]}
            /\ UNCHANGED scanPc
       \/ \E t \in DOMAIN taskPc :
            /\ taskPc[t] = "sink"
            /\ taskPc' = [taskPc EXCEPT ![t] = "done"]
            /\ UNCHANGED scanPc
       \/ /\ \A t \in DOMAIN taskPc : taskPc[t] = "done"
          /\ scanPc' = "returned"
          /\ UNCHANGED taskPc

\* The requests whose scans are followed to their end: a directory with more
\* files than the gate has slots and a directory with files that fault.
LiveQueries ==
    {[keywords |-> <<"c", "a", "t">>, directory |-> "big", file_type |-> None],
     [keywords |-> <<"c", "a", "t">>, directory |-> "small", file_type |-> None]}

LiveNext ==
    \/ \E q \in LiveQueries : search_files_tool_valid(q)
    \/ search_files_tool_finish
    \/ search_files_start
    \/ \E t \in DOMAIN taskPc : process_file_run(t)
    \/ \E t \in DOMAIN taskPc : process_file_fault(t)
    \/ \E t \in DOMAIN taskPc : report_progress_returns(t)
    \/ search_files_return

\* The event loop runs a task that is ready, and every extraction and every
\* call of the sink returns: while a task or gather can take its next step,
\* one of them does.
SpecLive == Init /\ [][LiveNext]_vars /\ WF_<<scanPc, taskPc>>(ScanStep)

\* ------------------------------------------- a scan whose sink keeps lines

\* A server that has not been asked anything, for a client whose sink keeps
\* the progress lines it is sent.
ProgressInit ==
    /\ handlers = StartupRegistry
    /\ sink_log = [recording |-> TRUE, lines |-> <<>>]
    /\ Idle

\* The requests of that client: one directory each.
ProgressQueries ==
    {[keywords |-> <<"c", "a", "t">>, directory |-> "small", file_type |-> None],
     [keywords |-> <<"c", "a", "t">>, directory |-> "vault", file_type |-> None]}

ProgressNext ==
    \/ \E q \in ProgressQueries : search_files_tool_valid(q)
    \/ search_files_tool_finish
    \/ search_files_start
    \/ \E t \in DOMAIN taskPc : process_file_run(t)
    \/ \E t \in DOMAIN taskPc : process_file_fault(t)
    \/ \E t \in DOMAIN taskPc : report_progress_returns(t)
    \/ \E t \in DOMAIN taskPc : report_progress_raises(t)
    \/ search_files_return

SpecProgress == ProgressInit /\ [][ProgressNext]_vars

\* -------------------------------------------------- get_directory_listing

\* math.ceil(a / b) for a >= 0, b >= 1
ceil_div(a, b) == (a + b - 1) \div b

\* min(a, b)
Min(a, b) == IF a <= b THEN a ELSE b

\* directories of get_directory_listing; DirectoryListingQuery.validate_path
\* has made the string "null" None
listing_dirs(q) ==
    IF validate_directory(q.path) # "" THEN <<validate_directory(q.path)>> ELSE SEARCH_DIRS

\* start_idx after the range check of get_directory_listing
listing_start(page, limit, total) ==
    IF (page - 1) * limit >= total /\ total > 0
    THEN (ceil_div(total, limit) - 1) * limit
    ELSE (page - 1) * limit

\* end_idx after the range check of get_directory_listing
listing_end(page, limit, total) ==
    IF (page - 1) * limit >= total /\ total > 0
    THEN total
    ELSE Min((page - 1) * limit + limit, total)

\* files[start_idx:end_idx] for 0 <= start_idx
Slice(seq, start_idx, end_idx) ==
    IF start_idx >= Min(end_idx, Len(seq)) THEN <<>>
    ELSE SubSeq(seq, start_idx + 1, Min(end_idx, Len(seq)))

\* the entry of files_metadata for one file: its metadata, or its name, its
\* path and the error when stat() raises
file_metadata(reg, f) ==
    IF f.statFails
    THEN [name |-> f.id, path |-> <<f.dir, f.id>>, type |-> <<>>, error |-> TRUE]
    ELSE [name |-> f.id, path |-> <<f.dir, f.id>>, type |-> type_description(reg, f.suffix),
          error |-> FALSE]

\* collect_metadata leaving out the files whose stat() raises
collect_metadata_skips(reg, window) ==
    LET ok == SelectSeq(window, LAMBDA f : ~f.statFails)
    IN  [i \in 1..Len(ok) |-> file_metadata(reg, ok[i])]

\* the loop over current_page_files: one entry appended per file, by the try
\* block or by its except block
collect_metadata(reg, window) == [i \in 1..Len(window) |-> file_metadata(reg, window[i])]

\* "page" of the payload of get_directory_listing
listing_page(q, total) == q.page

\* the payload of get_directory_listing for the directory it lists
listing_payload(reg, q, directory) ==
    LET fs == find_files(reg, directory, q.file_type, FALSE)
        total == Len(fs)
        window == Slice(fs, listing_start(q.page, q.limit, total),
                        listing_end(q.page, q.limit, total))
        files_metadata == collect_metadata(reg, window)
    IN  [state |-> "listed",
         error |-> "",
         directory |-> directory,
         total_files |-> total,
         page |-> listing_page(q, total),
         limit |-> q.limit,
         total_pages |-> IF total > 0 THEN ceil_div(total, q.limit) ELSE 1,
         showing_files |-> Len(files_metadata),
         files |-> files_metadata,
         file_type_filter |-> q.file_type]

\* The listing requests a client sends: DirectoryListingQuery admits
\* page >= 1 and 1 <= limit <= MAX_LIMIT.
ListQueries ==
    [path : {"archive", "", "null", "empty", "gone", "vault", "locked"},
     page : 1..MaxPage,
     limit : 1..MAX_LIMIT,
     file_type : {None, <<"p", "d", "f">>}]

\* get_directory_listing, no valid directory: the error payload
get_directory_listing_invalid(q) ==
    /\ listResponse.state = "none"
    /\ SelectSeq(listing_dirs(q), is_valid_dir) = <<>>
    /\ listResponse' = [NoListing EXCEPT !.state = "error", !.error = "no valid directory"]
    /\ UNCHANGED <<handlers, toolVars, scanVars, regAnswer, typesResponse, pureVars>>

\* get_directory_listing: the first valid directory is listed
get_directory_listing(q) ==
    /\ listResponse.state = "none"
    /\ SelectSeq(listing_dirs(q), is_valid_dir) # <<>>
    /\ listResponse' = listing_payload(handlers, q, Head(SelectSeq(listing_dirs(q), is_valid_dir)))
    /\ UNCHANGED <<handlers, toolVars, scanVars, regAnswer, typesResponse, pureVars>>

ListNext ==
    \/ \E q \in ListQueries : get_directory_listing_invalid(q)
    \/ \E q \in ListQueries : get_directory_listing(q)

SpecList == Init /\ [][ListNext]_vars

\* ------------------------------------- the tools of the server side by side

\* file_types of get_supported_file_types: one entry per registered handler,
\* in the registry's order
supported_file_types(reg) ==
    [i \in 1..Len(reg) |->
        [name |-> reg[i].label, extensions |-> reg[i].exts, is_enabled |-> TRUE]]

\* the registry's list turned around
Reversed(reg) == [i \in 1..Len(reg) |-> reg[Len(reg) + 1 - i]]

\* get_supported_file_types listing the newest handler first by reversing
\* handler_registry.handlers in place
get_supported_file_types_reverses ==
    /\ ~typesResponse.asked
    /\ handlers' = Reversed(handlers)
    /\ typesResponse' = [asked |-> TRUE, supported_file_types |-> supported_file_types(handlers')]
    /\ UNCHANGED <<toolVars, scanVars, listResponse, regAnswer, pureVars>>

\* get_supported_file_types: the payload is built from a pass over
\* handler_registry.handlers
get_supported_file_types ==
    /\ ~typesResponse.asked
    /\ typesResponse' = [asked |-> TRUE, supported_file_types |-> supported_file_types(handlers)]
    /\ UNCHANGED <<handlers, toolVars, scanVars, listResponse, regAnswer, pureVars>>

\* The search requests for one directory.
ServerQueries == {q \in Queries : validate_directory(q.directory) # ""}

\* The listing requests for the first page at the largest page size.
ServerListQueries == {q \in ListQueries : q.page = 1 /\ q.limit = MAX_LIMIT}

\* A search request, a listing request and a supported-types request are
\* served by one event loop: the listing and the supported-types tool run
\* between any two steps of the tasks of the scan.
ServerNext ==
    \/ \E q \in ServerQueries : search_files_tool_invalid(q)
    \/ \E q \in ServerQueries : search_files_tool_valid(q)
    \/ search_files_tool_finish
    \/ search_files_empty
    \/ search_files_start
    \/ \E t \in DOMAIN taskPc : process_file_run(t)
    \/ \E t \in DOMAIN taskPc : process_file_fault(t)
    \/ \E t \in DOMAIN taskPc : report_progress_returns(t)
    \/ \E t \in DOMAIN taskPc : report_progress_raises(t)
    \/ search_files_return
    \/ \E q \in ServerListQueries : get_directory_listing_invalid(q)
    \/ \E q \in ServerListQueries : get_directory_listing(q)
    \/ get_supported_file_types

SpecServer == Init /\ [][ServerNext]_vars

\* ------------------------------------------------ the registry on its own

\* A fifth handler, which claims extensions TextHandler claims too.
MarkdownHandler ==
    [exts |-> {<<".", "m", "d">>, <<".", "t", "x", "t">>},
     label |-> <<"M", "a", "r", "k", "d", "o", "w", "n">>]

Variants == {PPTXHandler, PDFHandler, DOCXHandler, TextHandler, MarkdownHandler}

AskedSuffixes == {SufTxt, SufPdfUpper, SufPng, <<".", "M", "d">>}

AskedFilters == {None, <<>>, <<"t", "e", "x", "t">>, <<"M", "A", "R", "K">>, <<"p", "d", "f">>}

\* the registry is empty when it is constructed
RegistryInit ==
    /\ handlers = <<>>
    /\ sink_log = NoLog
    /\ Idle

\* handler_registry.register_handler(handler)
Register(handler) ==
    /\ Len(handlers) < MaxHandlers
    /\ handlers' = register_handler(handlers, handler)
    /\ regAnswer' = NoAnswer
    /\ UNCHANGED <<toolVars, scanVars, listResponse, typesResponse, pureVars>>

\* can_handle_file(path, file_type) and get_handler_for_file(path), asked of
\* the registry as it stands
Ask(suffix, file_type) ==
    /\ regAnswer' = [asked |-> TRUE, suffix |-> suffix, file_type |-> file_type,
                     accepts |-> can_handle_file(handlers, suffix, file_type),
                     handler |-> get_handler_for_file(handlers, suffix)]
    /\ UNCHANGED <<handlers, toolVars, scanVars, listResponse, typesResponse, pureVars>>

RegistryNext ==
    \/ \E h \in Variants : Register(h)
    \/ \E s \in AskedSuffixes, ft \in AskedFilters : Ask(s, ft)

SpecRegistry == RegistryInit /\ [][RegistryNext]_vars

\* ------------------------------------------- the matching loop on its own

\* The keywords asked for.
MatchKeywords ==
    {<<"c", "a", "t">>, <<"a", "T">>, <<"c", "#">>, <<"#">>, <<"t", " ", "c">>}

MatchAlphabet == {"c", "a", "T", " ", "#"}

RECURSIVE TextsUpTo(_)
\* the texts of at most n characters of MatchAlphabet
TextsUpTo(n) ==
    IF n = 0 THEN {<<>>}
    ELSE TextsUpTo(n - 1)
            \cup {Append(t, c) : t \in {u \in TextsUpTo(n - 1) : Len(u) = n - 1}, c \in MatchAlphabet}

\* "Cat cat cat ..." cut at n characters
CatText(n) == [i \in 1..n |-> IF i = 1 THEN "C" ELSE <<"c", "a", "t", " ">>[((i - 1) % 4) + 1]]

\* The section texts the loop is run on.
MatchTexts ==
    TextsUpTo(MaxTextLen)
        \cup {<<"t", "h", "e", " ", "c", "a", "t", " ", "s", "a", "t">>,
              <<"c", "a", "t", "e", "g", "o", "r", "y">>}
        \cup {CatText(n) : n \in {50, PreviewLen - 1, PreviewLen, PreviewLen + 1, PreviewLen + 3, 500}}

\* the loop over content_sections of process_file, for one section
Match(kw, text) ==
    /\ ~matchAnswer.asked
    /\ matchAnswer' = [asked |-> TRUE, keywords |-> kw, text |-> text,
                       content_matches |-> content_matches_of(<<Sec(1, text)>>, kw)]
    /\ UNCHANGED <<handlers, toolVars, scanVars, listResponse, regAnswer, typesResponse, extractAnswer>>

MatchNext == \E kw \in MatchKeywords, text \in MatchTexts : Match(kw, text)

SpecMatch == Init /\ [][MatchNext]_vars

\* ------------------------------------------------ the handlers' extract_text

\* max(a, b)
Max(a, b) == IF a >= b THEN a ELSE b

\* One section of what extract_text returns: text is "content" for the text
\* of a slide, page, paragraph, table or chunk of lines, "marker" for the
\* text that says more was left out, "error" for the text of the except block.
Section(n, type, text) == [section_number |-> n, section_type |-> type, text |-> text]

\* the return of the except block of every extract_text
ErrorSections == <<Section(0, "error", "error")>>

\* PPTXHandler.extract_text: one section per slide, numbered i + 1; at the
\* slide with i >= max_content_sections the marker is appended and the loop
\* left
pptx_extract_text(doc, max_content_sections) ==
    LET RECURSIVE slides(_)
        slides(i) ==
            IF i >= doc.units THEN <<>>
            ELSE IF i >= max_content_sections THEN <<Section(i + 1, "slide", "marker")>>
            ELSE <<Section(i + 1, "slide", "content")>> \o slides(i + 1)
    IN  IF doc.raises THEN ErrorSections ELSE slides(0)

\* PDFHandler.extract_text: one section per page of the first
\* min(total_pages, max_content_sections), then the marker numbered
\* max_content_sections + 1 when total_pages > max_content_sections
pdf_extract_text(doc, max_content_sections) ==
    LET total_pages == doc.units
        pages == [i \in 1..Min(total_pages, max_content_sections) |-> Section(i, "page", "content")]
    IN  IF doc.raises THEN ErrorSections
        ELSE IF total_pages > max_content_sections
             THEN Append(pages, Section(max_content_sections + 1, "page", "marker"))
             ELSE pages

\* the first loop of DOCXHandler.extract_text: a section numbered i + 1 per
\* paragraph whose stripped text is not empty; at the paragraph with
\* i >= max_content_sections the marker is appended and the loop left
docx_paragraphs(doc, max_content_sections) ==
    LET RECURSIVE paragraphs(_)
        paragraphs(i) ==
            IF i >= Len(doc.paragraphs) THEN <<>>
            ELSE IF i >= max_content_sections THEN <<Section(i + 1, "paragraph", "marker")>>
            ELSE (IF doc.paragraphs[i + 1] THEN <<Section(i + 1, "paragraph", "content")>> ELSE <<>>)
                    \o paragraphs(i + 1)
    IN  paragraphs(0)

\* the second loop of DOCXHandler.extract_text: a section per table whose
\* text is not empty, numbered from table_section_number on, for the first
\* max_content_sections // 2 of them
docx_tables(doc, max_content_sections, first_number) ==
    LET RECURSIVE tables(_, _, _)
        tables(k, tables_processed, table_section_number) ==
            IF k > Len(doc.tables) THEN <<>>
            ELSE IF tables_processed >= max_content_sections \div 2
                 THEN tables(k + 1, tables_processed, table_section_number)
                 ELSE IF doc.tables[k]
                      THEN <<Section(table_section_number, "table", "content")>>
                              \o tables(k + 1, tables_processed + 1, table_section_number + 1)
                      ELSE tables(k + 1, tables_processed, table_section_number)
    IN  tables(1, 0, first_number)

\* DOCXHandler.extract_text: the paragraph sections, then the table sections
\* appended to the same list, with table_section_number = len(paragraphs) + 1
docx_extract_text(doc, max_content_sections) ==
    LET paragraphs == docx_paragraphs(doc, max_content_sections)
    IN  IF doc.raises THEN ErrorSections
        ELSE paragraphs \o docx_tables(doc, max_content_sections, Len(paragraphs) + 1)

\* lines_per_section of TextHandler.extract_text
lines_per_section(total_lines, max_content_sections) ==
    Max(MinLinesPerSection, total_lines \div max_content_sections)

\* TextHandler.extract_text: one section per lines_per_section lines of the
\* first max_content_sections * lines_per_section, numbered
\* (i // lines_per_section) + 1, then the marker numbered len(sections) + 1
\* when lines remain
text_extract_text(doc, max_content_sections) ==
    LET total_lines == doc.units
        per == lines_per_section(total_lines, max_content_sections)
        stop == Min(total_lines, max_content_sections * per)
        starts == {i \in 0..(stop - 1) : i % per = 0}
        sections == [k \in 1..Cardinality(starts) |-> Section(k, "text_chunk", "content")]
    IN  IF doc.raises THEN ErrorSections
        ELSE IF total_lines > max_content_sections * per
             THEN Append(sections, Section(Len(sections) + 1, "text_chunk", "marker"))
             ELSE sections

\* the values of max_content_sections: the one extract_text_from_file passes
\* and smaller ones
Caps == {1, 2, 3, MAX_CONTENT_PER_FILE}

NoParagraphs == <<>>

\* a document of n slides, pages or lines
UnitsDoc(n) == [units |-> n, paragraphs |-> NoParagraphs, tables |-> NoParagraphs, raises |-> FALSE]

\* a document that cannot be opened
BrokenDoc == [UnitsDoc(0) EXCEPT !.raises = TRUE]

\* the slide decks and the PDF files: up to MaxOver units more than a cap
UnitDocs(cap) == {UnitsDoc(n) : n \in 0..(cap + MaxOver)} \cup {BrokenDoc}

\* the lists of at most n paragraphs or tables, each empty or not
RECURSIVE FlagsUpTo(_)
FlagsUpTo(n) ==
    IF n = 0 THEN {<<>>}
    ELSE FlagsUpTo(n - 1)
            \cup {Append(t, b) : t \in {u \in FlagsUpTo(n - 1) : Len(u) = n - 1}, b \in BOOLEAN}

\* the word-processor documents: short ones of every shape, and ones of
\* non-empty paragraphs around the cap
WordDocs(cap) ==
    {[units |-> 0, paragraphs |-> ps, tables |-> ts, raises |-> FALSE] :
        ps \in FlagsUpTo(MaxParagraphs) \cup {[i \in 1..n |-> TRUE] : n \in cap..(cap + MaxOver)},
        ts \in FlagsUpTo(MaxTables)}
        \cup {BrokenDoc}

\* the text files: short ones of every length, and ones around the lengths
\* where the sections run out
TextDocs(cap) ==
    {UnitsDoc(n) : n \in 0..MaxLines
        \cup ((cap * MinLinesPerSection - MaxOver)..(cap * MinLinesPerSection + cap + MaxOver))}
        \cup {BrokenDoc}

\* PPTXHandler.extract_text(file_path, max_content_sections)
ExtractPPTX(doc, cap) ==
    /\ ~extractAnswer.asked
    /\ extractAnswer' = [asked |-> TRUE, handler |-> "PowerPoint", doc |-> doc, cap |-> cap,
                         sections |-> pptx_extract_text(doc, cap)]
    /\ UNCHANGED <<handlers, toolVars, scanVars, listResponse, regAnswer, typesResponse, matchAnswer>>

\* PDFHandler.extract_text(file_path, max_content_sections)
ExtractPDF(doc, cap) ==
    /\ ~extractAnswer.asked
    /\ extractAnswer' = [asked |-> TRUE, handler |-> "PDF", doc |-> doc, cap |-> cap,
                         sections |-> pdf_extract_text(doc, cap)]
    /\ UNCHANGED <<handlers, toolVars, scanVars, listResponse, regAnswer, typesResponse, matchAnswer>>

\* DOCXHandler.extract_text(file_path, max_content_sections)
ExtractDOCX(doc, cap) ==
    /\ ~extractAnswer.asked
    /\ extractAnswer' = [asked |-> TRUE, handler |-> "Word", doc |-> doc, cap |-> cap,
                         sections |-> docx_extract_text(doc, cap)]
    /\ UNCHANGED <<handlers, toolVars, scanVars, listResponse, regAnswer, typesResponse, matchAnswer>>

\* TextHandler.extract_text(file_path, max_content_sections)
ExtractText(doc, cap) ==
    /\ ~extractAnswer.asked
    /\ extractAnswer' = [asked |-> TRUE, handler |-> "Text", doc |-> doc, cap |-> cap,
                         sections |-> text_extract_text(doc, cap)]
    /\ UNCHANGED <<handlers, toolVars, scanVars, listResponse, regAnswer, typesResponse, matchAnswer>>

ExtractNext ==
    \/ \E cap \in Caps : \E doc \in UnitDocs(cap) : ExtractPPTX(doc, cap)
    \/ \E cap \in Caps : \E doc \in UnitDocs(cap) : ExtractPDF(doc, cap)
    \/ \E cap \in Caps : \E doc \in WordDocs(cap) : ExtractDOCX(doc, cap)
    \/ \E cap \in Caps : \E doc \in TextDocs(cap) : ExtractText(doc, cap)

SpecExtract == Init /\ [][ExtractNext]_vars

\* ----------------------------------------------------------------- claims

\* the tasks suspended inside async with semaphore
InGate == {t \in DOMAIN taskPc : taskPc[t] = "sink"}

\* the tasks that have not entered the gate yet
Pending == {t \in DOMAIN taskPc : taskPc[t] = "pending"}

\* the tasks whose try block raised before the progress update
FaultedTasks == {t \in DOMAIN taskPc : taskPc[t] = "done" /\ task_raises(t)}

PathOf(f) == <<f.dir, f.id>>

InResults(rs, f) == \E i \in 1..Len(rs) : rs[i].path = PathOf(f)

\* does one of the document's own sections contain the keyword
HasMatchingSection(f, kw) ==
    \E i \in 1..Len(f.doc.sections) :
        f.doc.sections[i].isStr /\ FindAll(kw, f.doc.sections[i].text) > 0

\* does the document's extraction or matching fault
Faults(f) ==
    f.doc.raises \/ \E i \in 1..Len(f.doc.sections) : ~f.doc.sections[i].isStr

\* C1: during a scan one task exists per discovered file, at most 10 tasks
\* are inside the gated section at once, and the semaphore counts the free
\* slots, so a pending task enters only when a slot is free.
C1_GateBound ==
    scanPc = "gather" =>
        /\ DOMAIN taskPc = 1..Len(files)
        /\ Cardinality(InGate) <= 10
        /\ semaphore = 10 - Cardinality(InGate)

\* 10 tasks are inside the gate and another one waits
C1_Witness == scanPc = "gather" /\ Cardinality(InGate) = 10 /\ Pending # {}

\* C2: once a file's task has faulted, the request still ends without an
\* error, the scan returns only when every task is done, and while it runs
\* the faulted task holds no slot of the gate, so the other tasks go on.
C2_FaultIsolated ==
    FaultedTasks # {} =>
        /\ toolPc = "done" => response.error = ""
        /\ scanPc \in {"returned", "none"} => \A t \in DOMAIN taskPc : taskPc[t] = "done"
        /\ scanPc = "gather" => semaphore = SemaphoreCapacity - Cardinality(InGate)

\* a task has faulted while another task is in flight and a third is queued
C2_Witness ==
    /\ scanPc = "gather"
    /\ FaultedTasks # {}
    /\ InGate # {}
    /\ Pending # {}

C4_Original ==
    scanPc \in {"gather", "returned"} =>
        /\ processed_files = Cardinality(DOMAIN taskPc \ Pending)
        /\ \A t \in DOMAIN taskPc : taskPc[t] = "done" => t \in notified

\* the file paths process_file has a result to append for
ExpectedPaths ==
    {PathOf(files[t]) : t \in {u \in DOMAIN files : ~task_raises(u) /\ has_result(task_matches(u))}}

ResultPaths(rs) == {rs[i].path : i \in 1..Len(rs)}

\* C5: after a report_progress call raised, the request ends without an
\* error and a scan returns the results of all files with matches; and while
\* fewer than 10 report_progress calls are outstanding, the gate admits the
\* next pending task.
C5_SinkIsolated ==
    /\ sinkFaults > 0 =>
        /\ (toolPc = "done" /\ valid_dirs # <<>>) => response.error = ""
        /\ scanPc = "returned" => ResultPaths(scanResult) = ExpectedPaths
    /\ (scanPc = "gather" /\ InGate # {} /\ Cardinality(InGate) < 10 /\ Pending # {}) =>
        can_acquire

\* a scan returned several results after a report_progress call raised
C5_Witness ==
    /\ sinkFaults > 0
    /\ scanPc = "returned"
    /\ Len(scanResult) >= 2
    /\ ResultPaths(scanResult) = ExpectedPaths

IsDescending(rs) ==
    \A i \in 1..(Len(rs) - 1) : rs[i].match_count >= rs[i + 1].match_count

\* C6: what a scan returns is in non-increasing order of match_count, and so
\* is the combined list of the payload.
C6_Sorted ==
    /\ IsDescending(scanResult)
    /\ toolPc = "done" => IsDescending(response.results)

\* the payload of a request over two directories ranks a result of the second
\* directory before one of the first
C6_Witness ==
    /\ toolPc = "done"
    /\ Len(valid_dirs) >= 2
    /\ \E i, j \in 1..Len(response.results) :
            /\ i < j
            /\ response.results[i].path[1] = "big"
            /\ response.results[j].path[1] = "small"
            /\ response.results[i].match_count > response.results[j].match_count

RECURSIVE MatchTotal(_, _)
\* the match counts of the first n content matches, added up
MatchTotal(cms, n) == IF n = 0 THEN 0 ELSE cms[n].match_count + MatchTotal(cms, n - 1)

WellFormedResult(r) ==
    /\ r.content_matches # <<>>
    /\ \A i \in 1..Len(r.content_matches) : r.content_matches[i].match_count >= 1
    /\ r.match_count = MatchTotal(r.content_matches, Len(r.content_matches))

\* C7: every result of a scan, while it is collected, when it is returned
\* and in the payload, has at least one content match, positive match counts
\* and a match_count that is their sum.
C7_MatchCounts ==
    /\ \A i \in 1..Len(results) : WellFormedResult(results[i])
    /\ \A i \in 1..Len(scanResult) : WellFormedResult(scanResult[i])
    /\ \A i \in 1..Len(response.results) : WellFormedResult(response.results[i])

\* a scan returned a result with two content matches and three matches
C7_Witness ==
    /\ scanPc = "returned"
    /\ \E i \in 1..Len(scanResult) :
            /\ Len(scanResult[i].content_matches) = 2
            /\ scanResult[i].match_count = 3

\* C8, as claimed: a listing of a directory with files reports a page that
\* exists, and its entries are that page's.
C8_Original ==
    (listResponse.state = "listed" /\ listResponse.total_files > 0) =>
        /\ listResponse.page <= listResponse.total_pages
        /\ listResponse.showing_files =
               Min(listResponse.limit,
                   listResponse.total_files - (listResponse.page - 1) * listResponse.limit)

\* C9, as claimed: showing_files lies between 0 and min(limit, total_files -
\* start_offset) for the start offset of the reported page.
C9_Original ==
    listResponse.state = "listed" =>
        /\ 0 <= listResponse.showing_files
        /\ listResponse.showing_files <=
               Min(listResponse.limit,
                   listResponse.total_files - (listResponse.page - 1) * listResponse.limit)

\* C10, as claimed: can_handle_file is true exactly when get_handler_for_file
\* finds a handler and the filter is absent or a case-insensitive substring
\* of that handler's type description.
C10_Original ==
    regAnswer.asked =>
        (regAnswer.accepts <=>
            /\ regAnswer.handler # 0
            /\ \/ regAnswer.file_type = None
               \/ IsSubstring(Lower(regAnswer.file_type),
                              Lower(handlers[regAnswer.handler].label)))

\* the registered handlers whose extensions contain the lowercased suffix
Claimants(suffix) == {i \in 1..Len(handlers) : Lower(suffix) \in handlers[i].exts}

\* C11: whatever handlers were registered and in whatever order,
\* get_handler_for_file answers None when no registered handler's extensions
\* contain the lowercased suffix of the path, and otherwise the one registered
\* first among those whose extensions contain it.
C11_FirstRegistered ==
    regAnswer.asked =>
        IF Claimants(regAnswer.suffix) = {}
        THEN regAnswer.handler = 0
        ELSE /\ regAnswer.handler \in Claimants(regAnswer.suffix)
             /\ \A i \in Claimants(regAnswer.suffix) : regAnswer.handler <= i

\* two registered handlers claim the extension of a path whose suffix is not
\* in lower case, and the first one was returned
C11_Witness ==
    /\ regAnswer.asked
    /\ regAnswer.suffix # Lower(regAnswer.suffix)
    /\ Cardinality(Claimants(regAnswer.suffix)) = 2
    /\ regAnswer.handler = 1
    /\ handlers[1] # handlers[2]

\* the directories of the request, or the configured ones, that exist and
\* are directories
ValidAmong(dirs) == {i \in 1..Len(dirs) : FileSystem(dirs[i]).kind = "dir"}

\* the paths of the files under directory d a scan has a result for
ExpectedIn(d) ==
    {PathOf(f) : f \in {g \in {walk(d)[i] : i \in 1..Len(walk(d))} :
        /\ can_handle_file(handlers, g.suffix, query.file_type)
        /\ ~matching_raises(extract_text_from_file(handlers, g))
        /\ has_result(content_matches_of(extract_text_from_file(handlers, g), query.keywords))}}

RECURSIVE FilesUnder(_)
\* the regular files under directory d, leaving out the subtrees that cannot
\* be listed
FilesUnder(d) ==
    LET es == FileSystem(d).entries
    IN  IF FileSystem(d).listFails THEN {}
        ELSE {es[i] : i \in {j \in 1..Len(es) : es[j].isFile}}
                \cup UNION {FilesUnder(es[i].sub) : i \in {j \in 1..Len(es) : ~es[j].isFile}}

\* the regular files among the entries of d itself, leaving out the entries
\* on which is_file() fails
FilesIn(d) ==
    LET es == FileSystem(d).entries
    IN  IF FileSystem(d).listFails THEN {}
        ELSE {es[i] : i \in {j \in 1..Len(es) : es[j].isFile /\ ~es[j].isFileRaises}}

\* C13, as claimed: discovery yields every acceptable file outside the
\* branches that fail, under the scanned directory in recursive mode and
\* among the listed directory's entries in non-recursive mode, and nothing
\* when the root itself cannot be listed.
C13_Original ==
    /\ scanPc = "gather" =>
            {files[t] : t \in DOMAIN files}
                = {f \in FilesUnder(valid_dirs[dirIdx]) :
                        can_handle_file(handlers, f.suffix, query.file_type)}
    /\ listResponse.state = "listed" =>
            listResponse.total_files
                = Cardinality({f \in FilesIn(listResponse.directory) :
                        can_handle_file(handlers, f.suffix, listResponse.file_type_filter)})

\* C14: the files list of a listing has one entry per file of the page
\* window, in window order, an entry carries the error field exactly when
\* the file's stat() failed, and showing_files is the size of the window.
C14_MetadataFailure ==
    listResponse.state = "listed" =>
        LET fs == find_files(handlers, listResponse.directory, listResponse.file_type_filter, FALSE)
            first == listing_start(listResponse.page, listResponse.limit, Len(fs))
            last == listing_end(listResponse.page, listResponse.limit, Len(fs))
            size == IF last > first THEN last - first ELSE 0
        IN  /\ Len(listResponse.files) = size
            /\ listResponse.showing_files = size
            /\ \A k \in 1..size :
                    /\ listResponse.files[k].name = fs[first + k].id
                    /\ listResponse.files[k].path = PathOf(fs[first + k])
                    /\ listResponse.files[k].error <=> fs[first + k].statFails

\* a listing whose window holds a file whose stat() failed, between two files
\* with metadata
C14_Witness ==
    /\ listResponse.state = "listed"
    /\ \E i, j, k \in 1..Len(listResponse.files) :
            /\ i < j
            /\ j < k
            /\ ~listResponse.files[i].error
            /\ listResponse.files[j].error
            /\ ~listResponse.files[k].error

\* the (filename, match_count) pairs of a list of results
Pairs(rs) == {<<rs[i].filename, rs[i].match_count>> : i \in 1..Len(rs)}

\* the results in rs of the files under directory d
FromDir(rs, d) == SelectSeq(rs, LAMBDA r : r.path[1] \in {f.dir : f \in FilesUnder(d)})

\* C15: when a scan of a directory returns and the same request has scanned
\* that directory before, with the same keyword, the two scans have the same
\* set of (filename, match_count) pairs, however the tasks of either scan
\* were interleaved and whether or not a progress call raised.
C15_Idempotent ==
    (toolPc = "scan" /\ scanPc = "returned") =>
        \A k \in 1..(dirIdx - 1) :
            valid_dirs[k] = valid_dirs[dirIdx] =>
                Pairs(scanResult) = Pairs(FromDir(all_results, valid_dirs[k]))

\* the second scan of a directory returned several results, in a request
\* during which a progress call raised
C15_Witness ==
    /\ toolPc = "scan"
    /\ scanPc = "returned"
    /\ dirIdx = 3
    /\ valid_dirs[1] = valid_dirs[3]
    /\ sinkFaults > 0
    /\ Cardinality(Pairs(scanResult)) >= 2
    /\ Pairs(scanResult) = Pairs(FromDir(all_results, valid_dirs[1]))

\* discovery finds no file under directory d for the request's filter
NothingToScan(d) ==
    {f \in FilesUnder(d) : can_handle_file(handlers, f.suffix, query.file_type)} = {}

\* C16: a scan of a directory where discovery finds no file returns the
\* empty list with no file and no task, tasks exist only while a scan has
\* files, one per file, and a request in all of whose directories discovery
\* finds no file has no error, result_count 0 and no results.
C16_EmptyScan ==
    /\ (toolPc = "scan" /\ scanPc = "returned" /\ NothingToScan(valid_dirs[dirIdx])) =>
            /\ scanResult = <<>>
            /\ files = <<>>
            /\ taskPc = <<>>
    /\ (toolPc = "scan" /\ scanPc = "gather") => (files # <<>> /\ DOMAIN taskPc = DOMAIN files)
    /\ (toolPc = "done" /\ valid_dirs # <<>>
            /\ \A i \in 1..Len(valid_dirs) : NothingToScan(valid_dirs[i])) =>
            /\ response.error = ""
            /\ response.result_count = 0
            /\ response.results = <<>>

\* the request over the directory without entries was answered
C16_Witness ==
    /\ toolPc = "done"
    /\ valid_dirs = <<"empty">>
    /\ FileSystem("empty").entries = <<>>
    /\ response.error = ""
    /\ response.result_count = 0
    /\ response.directories = <<"empty">>

\* the keyword stands at position i of text, in any case, and the characters
\* next to it, if any, are not word characters
DelimitedAt(kw, text, i) ==
    /\ i >= 1
    /\ i + Len(kw) - 1 <= Len(text)
    /\ Lower(SubSeq(text, i, i + Len(kw) - 1)) = Lower(kw)
    /\ i > 1 => ~IsWordChar(text[i - 1])
    /\ i + Len(kw) <= Len(text) => ~IsWordChar(text[i + Len(kw)])

\* the number of matches counted for the section
Counted == IF matchAnswer.content_matches = <<>> THEN 0 ELSE matchAnswer.content_matches[1].match_count

\* C17, as claimed: for every keyword and section text, the matches counted
\* for a section are no more than the places where the keyword, in any
\* case, stands as a delimited token.
C17_Original ==
    matchAnswer.asked =>
        Counted <= Cardinality({i \in 1..Len(matchAnswer.text) :
                                    DelimitedAt(matchAnswer.keywords, matchAnswer.text, i)})

\* C18: the preview of a content match is the section text when it has at
\* most 200 characters, and otherwise 203 characters: the first 200 of the
\* text and three dots; no preview has more than 203 characters.
C18_Preview ==
    \A i \in 1..Len(matchAnswer.content_matches) :
        LET preview == matchAnswer.content_matches[i].preview
            text == matchAnswer.text
        IN  /\ Len(preview) <= 203
            /\ Len(text) <= 200 => preview = text
            /\ Len(text) > 200 =>
                    /\ Len(preview) = 203
                    /\ \A k \in 1..200 : preview[k] = text[k]
                    /\ \A k \in 201..203 : preview[k] = "."

\* a matching section of 500 characters has a preview of 203
C18_Witness ==
    /\ matchAnswer.asked
    /\ Len(matchAnswer.text) = 500
    /\ Len(matchAnswer.content_matches) = 1
    /\ Len(matchAnswer.content_matches[1].preview) = 203

\* the document has more slides, pages or paragraphs than the cap, or more
\* lines than the cap's sections hold
ExceedsCap ==
    /\ extractAnswer.asked
    /\ ~extractAnswer.doc.raises
    /\ CASE extractAnswer.handler = "Word" -> Len(extractAnswer.doc.paragraphs) > extractAnswer.cap
          [] extractAnswer.handler = "Text" ->
                extractAnswer.doc.units
                    > extractAnswer.cap * lines_per_section(extractAnswer.doc.units, extractAnswer.cap)
          [] OTHER -> extractAnswer.doc.units > extractAnswer.cap

\* C19, as claimed: whichever handler extracts it, a document that exceeds
\* the cap yields cap sections of content and then one marker section, which
\* is the last section.
C19_Original ==
    ExceedsCap =>
        /\ Len(extractAnswer.sections) = extractAnswer.cap + 1
        /\ \A i \in 1..extractAnswer.cap : extractAnswer.sections[i].text = "content"
        /\ extractAnswer.sections[extractAnswer.cap + 1].text = "marker"

\* C20, as claimed: whichever handler extracts it and whatever the document,
\* the section numbers of one extraction are strictly increasing in the
\* order the sections are emitted.
C20_Original ==
    \A i, j \in 1..Len(extractAnswer.sections) :
        i < j => extractAnswer.sections[i].section_number < extractAnswer.sections[j].section_number

\* the tasks that have finished their work on their file: the ones that are
\* done and the ones waiting for their progress call to end
Finished == {t \in DOMAIN taskPc : taskPc[t] \in {"sink", "done"}}

\* C21, as claimed: during a scan the processed count never exceeds
\* total_files and is the number of tasks that have finished their work, and
\* it is total_files when the scan returns, whether or not a progress call
\* raised.
C21_Original ==
    /\ scanPc = "gather" =>
            /\ processed_files <= total_files
            /\ processed_files = Cardinality(Finished)
    /\ (scanPc = "returned" /\ files # <<>>) => processed_files = total_files

\* does the keyword match a section the file's handler returns: one of the
\* document's sections, or the diagnostic section of an extraction that raised
HasMatch(f, kw) ==
    IF f.doc.raises THEN FindAll(kw, ErrorPrefix \o f.doc.msg) > 0
    ELSE HasMatchingSection(f, kw)

\* does the matching loop raise on a section of the document
MatchingFaults(f) ==
    ~f.doc.raises /\ \E i \in 1..Len(f.doc.sections) : ~f.doc.sections[i].isStr

\* the number of entries of rs for the file f
ResultsFor(rs, f) == Cardinality({i \in 1..Len(rs) : rs[i].path = PathOf(f)})

Lines == sink_log.lines

\* how many of the kept progress lines print the count c
Announced(c) == Cardinality({i \in DOMAIN Lines : Lines[i].processed_files = c})

\* C23, as claimed: while no progress call has raised, every progress line
\* prints the count its task reported to the sink, for a count that is due a
\* line, and no count is printed twice; and when the scan returns, every
\* multiple of 5 up to total_files, and total_files, has been printed once.
C23_Original ==
    sinkFaults = 0 =>
        /\ \A i \in DOMAIN Lines :
                /\ Lines[i].processed_files = Lines[i].reported
                /\ emits_progress_line(Lines[i].reported, Lines[i].total_files)
                /\ Announced(Lines[i].processed_files) = 1
        /\ scanPc = "returned" =>
                \A c \in 1..total_files :
                    emits_progress_line(c, total_files) => Announced(c) = 1

\* C24: when every extraction and every sink call returns, a scan that has
\* created its tasks returns, and when it does every task is done, none
\* waits for the gate and all 10 slots are free; this covers the tasks that
\* faulted.
C24_Terminates ==
    (scanPc = "gather")
        ~> (/\ scanPc = "returned"
            /\ semaphore = 10
            /\ Pending = {}
            /\ \A t \in DOMAIN files : taskPc[t] = "done")

\* a scan of more files than the gate has slots returned with all slots free
C24_Witness ==
    /\ scanPc = "returned"
    /\ Len(files) > SemaphoreCapacity
    /\ semaphore = SemaphoreCapacity
    /\ \A t \in DOMAIN files : taskPc[t] = "done"

\* type_filter.lower() in label.lower()
LabelContains(label, file_type) == IsSubstring(Lower(file_type), Lower(label))

\* C25: with a type filter, the handler that extracts and labels a discovered
\* file is one whose label contains the filter, so the label of every result
\* of the scan, of every result of the payload and of every listing entry
\* that carries a label contains the filter, letter case aside.
C25_LabelMatchesFilter ==
    /\ (scanPc \in {"gather", "returned"} /\ query.file_type # None) =>
            /\ \A t \in DOMAIN files :
                    handler_accepts(handlers[get_handler_for_file(handlers, files[t].suffix)],
                                    files[t].suffix, query.file_type)
            /\ \A i \in DOMAIN results : LabelContains(results[i].file_type, query.file_type)
    /\ (toolPc = "done" /\ query.file_type # None) =>
            \A i \in DOMAIN response.results :
                LabelContains(response.results[i].file_type, query.file_type)
    /\ (listResponse.state = "listed" /\ listResponse.file_type_filter # None) =>
            \A i \in DOMAIN listResponse.files :
                ~listResponse.files[i].error =>
                    LabelContains(listResponse.files[i].type, listResponse.file_type_filter)

\* a filtered search has answered with a result and a filtered listing with
\* a labelled entry, while the directories hold files of other types
C25_Witness ==
    /\ toolPc = "done"
    /\ query.file_type # None
    /\ response.results # <<>>
    /\ Len(walk(query.directory)) > Len(files)
    /\ listResponse.state = "listed"
    /\ listResponse.file_type_filter # None
    /\ \E i \in DOMAIN listResponse.files : ~listResponse.files[i].error
    /\ Len(FileSystem(listResponse.directory).entries) > listResponse.total_files

\* C26: whatever the scan, the listing and the supported-types tool have
\* done and in whatever order, the registry holds the handlers registered at
\* start-up in their order, and every file of the scan resolves to the
\* handler it resolved to at start-up.
C26_RegistryUnchanged ==
    /\ handlers = StartupRegistry
    /\ \A t \in DOMAIN files :
            get_handler_for_file(handlers, files[t].suffix)
                = get_handler_for_file(StartupRegistry, files[t].suffix)
    /\ typesResponse.asked =>
            typesResponse.supported_file_types = supported_file_types(StartupRegistry)

\* the tasks of a scan are in flight, some with their result appended, and
\* the listing and the supported-types tool have answered
C26_Witness ==
    /\ scanPc = "gather"
    /\ InGate # {}
    /\ results # <<>>
    /\ typesResponse.asked
    /\ listResponse.state = "listed"
    /\ listResponse.files # <<>>

====
